---- MODULE Spec2Model ----
(***************************************************************************)
(* Review-state synchronisation of the massive video reviewer.             *)
(*                                                                         *)
(* src/frontend/App.tsx holds two builds of the client:                    *)
(*   "tagged"  lines   1-313  PAGE_SIZE 6, labels are {status, tag}        *)
(*             objects, a debounced save on keyboard navigation and a save *)
(*             on every label set;                                         *)
(*   "plain"   lines 315-552  PAGE_SIZE 8, labels are bare strings, a      *)
(*             beacon save on page unload.                                 *)
(* src/unnamed/part_004 is the Express server both builds talk to.         *)
(*                                                                         *)
(* React is modelled as React 18 does it: the state updates of one event   *)
(* or of one resumed async function are rendered in one batch, and the     *)
(* effects of that render run before the next event is handled, so every   *)
(* action below is a handler together with the render and the effects it   *)
(* causes.                                                                 *)
(***************************************************************************)
EXTENDS Integers, Sequences, FiniteSets, TLC

\* ------------------------------------------------------------------ bounds
MaxKeys == 13         \* largest catalog
MaxEvents == 2        \* operator events (keys, clicks) in one session
MaxWrites == 2        \* save requests dispatched in one session
MaxFetches == 2       \* page fetches in flight at once
MaxSlots == 1         \* the operator acts on the first MaxSlots slots and the last

\* -------------------------------------------------------- program constants
PAGE_SIZE_TAGGED == 6
PAGE_SIZE_PLAIN == 8
SERVER_PAGE_SIZE == 8

Builds == {"tagged", "plain"}

\* ------------------------------------------------------------- label values
\* A value stored under a key of the label map: an object {status, tag}, a
\* bare status string (the legacy shape), or undefined (no entry).
Obj(s, t) == [shape |-> "obj", status |-> s, tag |-> t]
Str(s) == [shape |-> "str", status |-> s, tag |-> ""]
Undefined == [shape |-> "undef", status |-> "", tag |-> ""]

LabelStatus == {"TP", "FP"}
Tags == {"", "x"}

EmptyMap == [k \in {} |-> Undefined]

\* labels[key]
Lookup(map, k) == IF k \in DOMAIN map THEN map[k] ELSE Undefined

\* { [key]: value }: the spread of prev forgotten
SpreadAlone(prev, k, v) == (k :> v)

\* { ...prev, [key]: value }
Spread(prev, k, v) == [x \in DOMAIN prev \cup {k} |-> IF x = k THEN v ELSE prev[x]]

\* The object branch never taken.
TypeofObjectNever(v) == FALSE

\* typeof labelData === 'object'
TypeofObject(v) == v.shape = "obj"

\* labelData alone, the default forgotten
OrDefaultMissing(v, dflt) == v.status

\* labelData || dflt, for a labelData that is no object
OrDefault(v, dflt) == IF v.shape = "undef" \/ v.status = "" THEN dflt ELSE v.status

\* ------------------------------------------------------------------ strings
\* A string is a sequence of characters.
Alphabet == <<"a", "A", "b", "B">>

\* String.prototype.toLowerCase, with the one-letter alphabet of the case left out.
ToLowerCaseNone(str) == str

\* String.prototype.toLowerCase
ToLowerCase(str) ==
    [i \in 1..Len(str) |-> CASE str[i] = "A" -> "a"
                             [] str[i] = "B" -> "b"
                             [] OTHER -> str[i]]

\* String.prototype.includes
Includes(str, sub) ==
    \E at \in 0..(Len(str) - Len(sub)) :
        \A i \in 1..Len(sub) : str[at + i] = sub[i]

\* String.prototype.trim
RECURSIVE TrimStart(_)
TrimStart(str) ==
    IF str # <<>> /\ Head(str) = " " THEN TrimStart(Tail(str)) ELSE str

RECURSIVE TrimEnd(_)
TrimEnd(str) ==
    IF str # <<>> /\ str[Len(str)] = " "
    THEN TrimEnd(SubSeq(str, 1, Len(str) - 1)) ELSE str

Trim(str) == TrimEnd(TrimStart(str))

\* The object key of the video the model calls k: two letters, all different,
\* some alike but for their case.
KeyName(k) ==
    <<Alphabet[(((k - 1) \div 4) % 4) + 1], Alphabet[((k - 1) % 4) + 1]>>

\* What the operator types into the search box.
Queries == {<<>>, <<" ">>, <<"B">>, <<"b", "A">>, <<"c">>}

\* ------------------------------------------------------------------- state
VARIABLES
    \* the server, src/unnamed/part_004
    isInitializing,   \* line 19
    initError,        \* line 20: null, or the message of the error caught
    cachedVideoKeys,  \* line 61
    dbState,          \* line 62
    uploads,          \* PutObject calls running (line 173): write numbers
    \* object storage
    s3Keys,           \* the .mp4 objects under the prefix, in listing order
    s3Doc,            \* review_db.json
    \* the client, src/frontend/App.tsx
    build,            \* which of the two builds of App.tsx runs
    videoKeys, labels, currentPage, isLoading, focusedIndex,
    pageVideos, isSaving, errorStatus,          \* lines 9-16
    searchQuery,      \* line 17
    stateRef,         \* line 19
    saveTimeoutRef,   \* line 20: the timer scheduled last, while it is pending
    timers,           \* the timers of setTimeout that are pending, with their closures
    nScheduled,       \* calls of setTimeout so far: the handle of the last timer
    hkCurrentPage,    \* currentPage as the installed keydown listener sees it
    initPending,      \* the /api/init request of line 27 is unanswered
    unloaded,         \* the page is gone
    \* requests on their way
    net,              \* /api/save requests not yet handled: write numbers
    fetches,          \* /api/page requests unanswered
    manualPending,    \* saveState calls awaiting their response: write numbers
    \* history
    log,              \* every save request dispatched so far, in dispatch order
    lastSet,          \* the last label set of each key
    nSets,            \* label sets so far
    lastApplied,      \* the write whose upload reached review_db.json last
    faults,           \* what went wrong with saves so far
    failed,           \* the writes whose request failed
    alerts,           \* the writes a failure alert was shown for, in order
    searches,         \* the queries submitted to the search form, in order
    nEvents           \* operator events so far

serverVars == <<isInitializing, initError, cachedVideoKeys, dbState, uploads>>
storeVars == <<s3Keys, s3Doc>>
reactVars == <<videoKeys, labels, currentPage, isLoading, focusedIndex,
               pageVideos, isSaving, errorStatus>>
clientVars == <<build, searchQuery, reactVars, stateRef, saveTimeoutRef, timers, nScheduled,
                hkCurrentPage, initPending, unloaded>>
wireVars == <<net, fetches, manualPending>>
histVars == <<log, lastSet, nSets, lastApplied, faults, failed, alerts,
             searches, nEvents>>
vars == <<serverVars, storeVars, clientVars, wireVars, histVars>>

\* ------------------------------------------------------------ the documents
\* { lastPage, labels }; defined is FALSE for an object with neither field.
Doc(lp, lb) == [defined |-> TRUE, lastPage |-> lp, labels |-> lb]
NoFields == [defined |-> FALSE, lastPage |-> 0, labels |-> EmptyMap]

\* dbState.lastPage || 0   and   dbState.labels || {}
LastPageOr0(d) == IF d.defined THEN d.lastPage ELSE 0
LabelsOrEmpty(d) == IF d.defined THEN d.labels ELSE EmptyMap

Catalog(n) == [i \in 1..n |-> i]
CatalogSizes == {0, PAGE_SIZE_TAGGED + 1, MaxKeys}

\* What review_db.json holds when the session starts: nothing, or a document
\* written by an earlier session (with a legacy entry, and a page that a
\* smaller catalog no longer has).
SavedDocs(b) ==
    {[exists |-> FALSE, doc |-> NoFields],
     [exists |-> TRUE,
      doc |-> Doc(1, IF b = "tagged"
                     THEN (1 :> Str("FP") @@ 2 :> Obj("TP", "x"))
                     ELSE (1 :> Str("FP")))]}

Null == "null"

\* JavaScript truthiness of a value that is null or a string.
Truthy(v) == v # Null /\ v # ""

\* err.message of what loadVideoKeys can throw: the message of a service
\* error, or the empty message of an error raised without one.
ErrorMessages == {"AccessDenied", ""}

NoTimer ==
    [pending |-> FALSE, id |-> 0, page |-> 0, labels |-> EmptyMap, whenReady |-> FALSE]

Init ==
    /\ isInitializing = TRUE
    /\ initError = Null
    /\ cachedVideoKeys = <<>>
    /\ dbState = Doc(0, EmptyMap)
    /\ uploads = {}
    /\ s3Keys \in {Catalog(n) : n \in CatalogSizes}
    /\ build \in Builds
    /\ s3Doc \in SavedDocs(build)
    /\ videoKeys = <<>>
    /\ labels = EmptyMap
    /\ currentPage = 0
    /\ isLoading = TRUE
    /\ focusedIndex = 0
    /\ pageVideos = <<>>
    /\ isSaving = FALSE
    /\ errorStatus = Null
    /\ searchQuery = <<>>
    /\ stateRef = [labels |-> EmptyMap, currentPage |-> 0]
    /\ saveTimeoutRef = NoTimer
    /\ timers = {}
    /\ nScheduled = 0
    /\ hkCurrentPage = 0
    /\ initPending = TRUE
    /\ unloaded = FALSE
    /\ net = <<>>
    /\ fetches = {}
    /\ manualPending = {}
    /\ log = <<>>
    /\ lastSet = EmptyMap
    /\ nSets = 0
    /\ lastApplied = 0
    /\ faults = {}
    /\ failed = {}
    /\ alerts = <<>>
    /\ searches = <<>>
    /\ nEvents = 0

\* ------------------------------------------------------------------ helpers
Min(a, b) == IF a < b THEN a ELSE b
Max(a, b) == IF a > b THEN a ELSE b

\* Math.ceil(n / size) for n >= 0
CeilDiv(n, size) == (n + size - 1) \div size

PAGE_SIZE == IF build = "tagged" THEN PAGE_SIZE_TAGGED ELSE PAGE_SIZE_PLAIN

\* const totalPages = Math.ceil(videoKeys.length / PAGE_SIZE)
totalPages == CeilDiv(Len(videoKeys), PAGE_SIZE)

\* Array.prototype.slice(from, to): a negative index counts from the end
SliceIndex(n, i) == IF i < 0 THEN Max(n + i, 0) ELSE Min(i, n)
Slice(seq, from, to) ==
    LET a == SliceIndex(Len(seq), from)
        b == SliceIndex(Len(seq), to)
    IN  IF b <= a THEN <<>> ELSE [i \in 1..(b - a) |-> seq[a + i]]

\* ----------------------------------------------- the effects of one render
\* The effect with labels missing from its dependencies.
SyncStateRefPageOnly ==
    stateRef' = [labels |-> IF currentPage' # currentPage THEN labels' ELSE stateRef.labels,
                 currentPage |-> currentPage']

\* useEffect(() => { stateRef.current = {...} }, [labels, currentPage, videoKeys])
SyncStateRef == stateRef' = [labels |-> labels', currentPage |-> currentPage']

\* The effect that calls loadPage(currentPage): it runs when currentPage,
\* isLoading, errorStatus or loadPage (videoKeys, labels) changed, and
\* loadPage returns at once for an empty catalog.  newLabels: setLabels was
\* called, which always makes a new object.
LoadPageEffect(newLabels) ==
    fetches' =
        IF /\ ~isLoading' /\ errorStatus' = Null
           /\ \/ newLabels \/ currentPage' # currentPage
              \/ isLoading' # isLoading \/ videoKeys' # videoKeys
           /\ Len(videoKeys') # 0
        THEN fetches \cup {[page |-> currentPage', labels |-> labels']}
        ELSE fetches

\* The keydown listener is replaced by one of the new render only when
\* videoKeys.length, pageVideos or focusedIndex changed; the plain build's
\* listener reads no currentPage.
KeydownEffect(newPageVideos) ==
    hkCurrentPage' =
        IF /\ build = "tagged"
           /\ \/ newPageVideos \/ Len(videoKeys') # Len(videoKeys)
              \/ focusedIndex' # focusedIndex
        THEN currentPage'
        ELSE hkCurrentPage

Effects(newLabels, newPageVideos) ==
    /\ SyncStateRef
    /\ LoadPageEffect(newLabels)
    /\ KeydownEffect(newPageVideos)

\* -------------------------------------------------------- the server starts
\* startServer: loadVideoKeys and loadDB succeed.
ServerInitOk ==
    /\ isInitializing
    /\ cachedVideoKeys' = s3Keys
    /\ dbState' = IF s3Doc.exists THEN s3Doc.doc ELSE dbState
    /\ isInitializing' = FALSE
    /\ UNCHANGED <<initError, uploads, storeVars, clientVars, wireVars,
                   log, lastSet, nSets, lastApplied, searches, faults, failed, alerts, nEvents>>

\* loadDB catches an error other than NoSuchKey (access denied, a timeout, a
\* document that does not parse) and logs it: the defaults stay.  "dbload"
\* notes it.
ServerInitDbError ==
    /\ isInitializing
    /\ s3Doc.exists
    /\ cachedVideoKeys' = s3Keys
    /\ isInitializing' = FALSE
    /\ faults' = faults \cup {"dbload"}
    /\ UNCHANGED <<initError, dbState, uploads, storeVars, clientVars, wireVars,
                   log, lastSet, nSets, lastApplied, searches, failed, alerts, nEvents>>

\* loadVideoKeys throws: initError = err.message, whatever the message of the
\* error is.  "init" notes that the catch ran.
ServerInitListError ==
    /\ isInitializing
    /\ \E message \in ErrorMessages : initError' = message
    /\ isInitializing' = FALSE
    /\ faults' = faults \cup {"init"}
    /\ UNCHANGED <<cachedVideoKeys, dbState, uploads, storeVars, clientVars,
                   wireVars, log, lastSet, nSets, lastApplied, searches, failed, alerts, nEvents>>

\* -------------------------------------------------------- the client starts
\* A catch that sets the message and forgets setIsLoading(false).
InitAppErrorStillLoading ==
    /\ initPending /\ ~unloaded
    /\ initPending' = FALSE
    /\ errorStatus' = "init failed"
    /\ UNCHANGED <<videoKeys, labels, currentPage, isLoading, focusedIndex,
                   pageVideos, isSaving>>
    /\ Effects(FALSE, FALSE)
    /\ UNCHANGED <<serverVars, storeVars, build, searchQuery, saveTimeoutRef, timers, nScheduled,
                   unloaded, net, manualPending, histVars>>

\* GET /api/init answers 503 or 500, or the request fails: initApp's catch.
InitAppError ==
    /\ initPending /\ ~unloaded
    /\ initPending' = FALSE
    /\ errorStatus' = "init failed"
    /\ isLoading' = FALSE
    /\ UNCHANGED <<videoKeys, labels, currentPage, focusedIndex, pageVideos, isSaving>>
    /\ Effects(FALSE, FALSE)
    /\ UNCHANGED <<serverVars, storeVars, build, searchQuery, saveTimeoutRef, timers, nScheduled, unloaded,
                   net, manualPending, log, lastSet, nSets, lastApplied, searches, faults, failed, alerts, nEvents>>

\* The body of GET /api/init once the server is initialized:
\* { videoKeys: cachedVideoKeys, labels: dbState.labels || {},
\*   lastPage: dbState.lastPage || 0 }
InitResponse ==
    [videoKeys |-> cachedVideoKeys,
     labels |-> LabelsOrEmpty(dbState),
     lastPage |-> LastPageOr0(dbState)]

\* GET /api/init: 503 while initializing, 500 when initError is truthy, the
\* body otherwise.
GetInit ==
    IF isInitializing THEN [status |-> 503, body |-> Null]
    ELSE IF Truthy(initError) THEN [status |-> 500, body |-> Null]
    ELSE [status |-> 200, body |-> InitResponse]

\* GET /api/init answers the catalog and the saved state.
InitAppOk ==
    /\ initPending /\ ~unloaded
    /\ GetInit.status = 200
    /\ initPending' = FALSE
    /\ videoKeys' = InitResponse.videoKeys
    /\ labels' = InitResponse.labels
    /\ currentPage' = InitResponse.lastPage
    /\ isLoading' = FALSE
    /\ UNCHANGED <<focusedIndex, pageVideos, isSaving, errorStatus>>
    /\ Effects(TRUE, FALSE)
    /\ UNCHANGED <<serverVars, storeVars, build, searchQuery, saveTimeoutRef, timers, nScheduled, unloaded,
                   net, manualPending, log, lastSet, nSets, lastApplied, searches, faults, failed, alerts, nEvents>>

\* ---------------------------------------------------------- the page fetch
\* GET /api/page: cachedVideoKeys.slice(page * size, page * size + size)
PageSlice(page) ==
    Slice(cachedVideoKeys, page * SERVER_PAGE_SIZE,
          page * SERVER_PAGE_SIZE + SERVER_PAGE_SIZE)

\* The page parameter of a request: a number as the client writes it into
\* the URL, or text that parseInt makes NaN of.
Query(n) == [numeric |-> TRUE, value |-> n]
NotANumber == [numeric |-> FALSE, value |-> 0]

\* const page = parseInt(req.query.page) || 0
ParsePage(raw) == IF raw.numeric THEN raw.value ELSE 0

\* The videos of the answer of GET /api/page?page=raw, as keys.
PageResponse(raw) == PageSlice(ParsePage(raw))

\* GET /api/page: the same two gates as GET /api/init, then the videos.
GetPage(raw) ==
    IF isInitializing THEN [status |-> 503, body |-> Null]
    ELSE IF Truthy(initError) THEN [status |-> 500, body |-> Null]
    ELSE [status |-> 200, body |-> PageResponse(raw)]

\* One item of the page view, from the label map loadPage closed over.  raw
\* is history: the stored value the item was derived from.
Annotate(key, map) ==
    LET labelData == Lookup(map, key)
    IN  IF build = "tagged"
        THEN [key |-> key,
              label |-> IF TypeofObject(labelData) THEN labelData.status
                        ELSE OrDefault(labelData, "TP"),
              tag |-> IF TypeofObject(labelData) THEN labelData.tag ELSE "",
              raw |-> labelData]
        ELSE [key |-> key,
              label |-> OrDefault(labelData, "TP"),
              tag |-> "",
              raw |-> labelData]

\* The response arrives: setPageVideos(videosWithLabels).
PageFetchOk ==
    \E f \in fetches :
        /\ ~unloaded
        /\ GetPage(Query(f.page)).status = 200
        /\ fetches' = fetches \ {f}
        /\ pageVideos' = LET keys == GetPage(Query(f.page)).body
                         IN  [i \in 1..Len(keys) |-> Annotate(keys[i], f.labels)]
        /\ UNCHANGED <<videoKeys, labels, currentPage, isLoading, focusedIndex,
                       isSaving, errorStatus>>
        /\ SyncStateRef
        /\ KeydownEffect(TRUE)
        /\ UNCHANGED <<serverVars, storeVars, build, searchQuery, saveTimeoutRef, timers, nScheduled, initPending,
                       unloaded, net, manualPending, log, lastSet, nSets, lastApplied, searches, faults, failed, alerts, nEvents>>

\* A catch that turns the failure into the blocking error state.
PageFetchErrorFatal ==
    \E f \in fetches :
        /\ ~unloaded
        /\ fetches' = fetches \ {f}
        /\ errorStatus' = "page failed"
        /\ faults' = faults \cup {"fetch"}
        /\ UNCHANGED <<serverVars, storeVars, build, searchQuery, videoKeys, labels,
                       currentPage, isLoading, focusedIndex, pageVideos, isSaving,
                       stateRef, saveTimeoutRef, timers, nScheduled, hkCurrentPage,
                       initPending, unloaded, net, manualPending,
                       log, lastSet, nSets, lastApplied, searches, failed, alerts, nEvents>>

\* The response is an error, or the request fails: loadPage's catch logs it
\* ("fetch" notes it).
PageFetchError ==
    \E f \in fetches :
        /\ ~unloaded
        /\ fetches' = fetches \ {f}
        /\ faults' = faults \cup {"fetch"}
        /\ UNCHANGED <<serverVars, storeVars, clientVars, net, manualPending,
                       log, lastSet, nSets, lastApplied, searches, failed, alerts, nEvents>>

\* ------------------------------------------------------- dispatching saves
\* One POST /api/save (or beacon) as it leaves the client.  The last four
\* fields are history: the React state when the request was dispatched,
\* whether a timer was pending then, and whether the event that caused the
\* request happened after loading was over.
Write(src, ctype, lp, lb, ready) ==
    [src |-> src, ctype |-> ctype, lastPage |-> lp, labels |-> lb,
     atPage |-> currentPage', atLabels |-> labels',
     timerPending |-> saveTimeoutRef.pending, whenReady |-> ready]

Dispatch(w) ==
    /\ log' = Append(log, w)
    /\ net' = Append(net, Len(log) + 1)

\* An operator can act: the page is there and the bounds allow another event.
CanAct ==
    /\ ~unloaded
    /\ nEvents < MaxEvents
    /\ Cardinality(fetches) < MaxFetches

\* The slots of a page of n items the operator acts on.
Slots(n) == {i \in 1..n : i <= MaxSlots \/ i = n}

\* What the operator sees once loading is over and no error is shown.
Ready == ~isLoading /\ errorStatus = Null

\* debouncedSave without its first line: the timer scheduled before is left
\* to run.
ClearTimeoutNever(ref) == timers

\* if (saveTimeoutRef.current) clearTimeout(saveTimeoutRef.current)
ClearTimeout(ref) == {t \in timers : ~(ref.pending /\ t.id = ref.id)}

\* debouncedSave(page, currentLabels): the timer's callback closes over both
\* (whenReady is history).
DebouncedSave(page, currentLabels) ==
    LET timer == [id |-> nScheduled + 1, page |-> page, labels |-> currentLabels,
                  whenReady |-> Ready]
    IN  /\ timers' = ClearTimeout(saveTimeoutRef) \cup {timer}
        /\ saveTimeoutRef' = [pending |-> TRUE, id |-> timer.id, page |-> page,
                              labels |-> currentLabels, whenReady |-> Ready]
        /\ nScheduled' = nScheduled + 1

\* ------------------------------------------------ the tagged build's events
\* 'PageDown' or 's'
KeyNext ==
    /\ build = "tagged" /\ CanAct
    /\ LET nextPage == Min(hkCurrentPage + 1, CeilDiv(Len(videoKeys), PAGE_SIZE) - 1)
       IN  /\ currentPage' = nextPage
           /\ DebouncedSave(nextPage, stateRef.labels)
    /\ UNCHANGED <<videoKeys, labels, isLoading, focusedIndex, pageVideos,
                   isSaving, errorStatus>>
    /\ Effects(FALSE, FALSE)
    /\ nEvents' = nEvents + 1
    /\ UNCHANGED <<serverVars, storeVars, build, searchQuery, initPending, unloaded,
                   net, manualPending, log, lastSet, nSets, lastApplied, searches, faults, failed, alerts>>

\* 'PageUp' or 'a'
KeyPrev ==
    /\ build = "tagged" /\ CanAct
    /\ LET prevPage == Max(0, hkCurrentPage - 1)
       IN  /\ currentPage' = prevPage
           /\ DebouncedSave(prevPage, stateRef.labels)
    /\ UNCHANGED <<videoKeys, labels, isLoading, focusedIndex, pageVideos,
                   isSaving, errorStatus>>
    /\ Effects(FALSE, FALSE)
    /\ nEvents' = nEvents + 1
    /\ UNCHANGED <<serverVars, storeVars, build, searchQuery, initPending, unloaded,
                   net, manualPending, log, lastSet, nSets, lastApplied, searches, faults, failed, alerts>>

\* History: the value key was set to last.
Noted(hist, key, value) == (key :> value) @@ hist

\* prev.map(v => v.key === key ? { ...v, label: status, tag } : v)
PatchPageVideos(key, status, tag, stored) ==
    [i \in 1..Len(pageVideos) |->
        IF pageVideos[i].key = key
        THEN [key |-> key, label |-> status, tag |-> tag, raw |-> stored]
        ELSE pageVideos[i]]

\* A save that closes over the label map of the render, not the new one.
LabelSaveStale(page, newLabels) == Write("label", "json", page, labels, Ready)

\* The save inside the setLabels updater: lastPage is the currentPage of the
\* render that made updateVideoData, labels the new map.
LabelSave(page, newLabels) == Write("label", "json", page, newLabels, Ready)

\* updateVideoData(key, status, tag), called from a render whose currentPage
\* was page.
UpdateVideoData(key, status, tag, page) ==
    /\ Len(log) < MaxWrites
    /\ labels' = Spread(labels, key, Obj(status, tag))
    /\ pageVideos' = PatchPageVideos(key, status, tag, Obj(status, tag))
    /\ UNCHANGED <<videoKeys, currentPage, isLoading, focusedIndex, isSaving,
                   errorStatus>>
    /\ Dispatch(LabelSave(page, labels'))
    /\ Effects(TRUE, TRUE)
    /\ lastSet' = Noted(lastSet, key, Obj(status, tag))
    /\ nSets' = nSets + 1
    /\ nEvents' = nEvents + 1
    /\ UNCHANGED <<serverVars, storeVars, build, searchQuery, saveTimeoutRef, timers, nScheduled, initPending,
                   unloaded, manualPending, lastApplied, searches, faults, failed, alerts>>

\* 'q' or 'w': the listener's pageVideos and focusedIndex are current, its
\* updateVideoData is the one of the render the listener was made in.
KeyLabel ==
    /\ build = "tagged" /\ CanAct
    /\ focusedIndex + 1 \in DOMAIN pageVideos
    /\ \E newLabel \in LabelStatus :
        LET video == pageVideos[focusedIndex + 1]
        IN  UpdateVideoData(video.key, newLabel, video.tag, hkCurrentPage)

\* onToggleLabel of the item at idx
ClickLabel ==
    /\ build = "tagged" /\ CanAct /\ Ready
    /\ \E idx \in Slots(Len(pageVideos)), status \in LabelStatus :
        LET video == pageVideos[idx]
        IN  UpdateVideoData(video.key, status, video.tag, currentPage)

\* onUpdateTag of the item at idx
UpdateTag ==
    /\ build = "tagged" /\ CanAct /\ Ready
    /\ \E idx \in Slots(Len(pageVideos)), tag \in Tags :
        LET video == pageVideos[idx]
        IN  UpdateVideoData(video.key, video.label, tag, currentPage)

\* A timer of debouncedSave elapses.
TimerFire ==
    /\ ~unloaded
    /\ Len(log) < MaxWrites
    /\ \E timer \in timers :
        /\ timers' = timers \ {timer}
        /\ saveTimeoutRef' = IF saveTimeoutRef.id = timer.id THEN NoTimer
                             ELSE saveTimeoutRef
        /\ UNCHANGED reactVars
        /\ Dispatch(Write("debounce", "json", timer.page, timer.labels,
                          timer.whenReady))
    /\ UNCHANGED <<serverVars, storeVars, build, searchQuery, stateRef, hkCurrentPage,
                   nScheduled, initPending, unloaded, fetches, manualPending, lastSet,
                   nSets, lastApplied, searches, faults, failed, alerts, nEvents>>

\* ------------------------------------------------- the plain build's events
\* 'PageDown' or ']'
KeyNextPlain ==
    /\ build = "plain" /\ CanAct
    /\ currentPage' = Min(currentPage + 1, CeilDiv(Len(videoKeys), PAGE_SIZE) - 1)
    /\ UNCHANGED <<videoKeys, labels, isLoading, focusedIndex, pageVideos,
                   isSaving, errorStatus>>
    /\ Effects(FALSE, FALSE)
    /\ nEvents' = nEvents + 1
    /\ UNCHANGED <<serverVars, storeVars, build, searchQuery, saveTimeoutRef, timers, nScheduled, initPending,
                   unloaded, net, manualPending, log, lastSet, nSets, lastApplied, searches, faults, failed, alerts>>

\* 'PageUp' or '['
KeyPrevPlain ==
    /\ build = "plain" /\ CanAct
    /\ currentPage' = Max(0, currentPage - 1)
    /\ UNCHANGED <<videoKeys, labels, isLoading, focusedIndex, pageVideos,
                   isSaving, errorStatus>>
    /\ Effects(FALSE, FALSE)
    /\ nEvents' = nEvents + 1
    /\ UNCHANGED <<serverVars, storeVars, build, searchQuery, saveTimeoutRef, timers, nScheduled, initPending,
                   unloaded, net, manualPending, log, lastSet, nSets, lastApplied, searches, faults, failed, alerts>>

\* toggleLabel(key, label)
ToggleLabel(key, label) ==
    /\ labels' = Spread(labels, key, Str(label))
    /\ pageVideos' = PatchPageVideos(key, label, "", Str(label))
    /\ UNCHANGED <<videoKeys, currentPage, isLoading, focusedIndex, isSaving,
                   errorStatus>>
    /\ Effects(TRUE, TRUE)
    /\ lastSet' = Noted(lastSet, key, Str(label))
    /\ nSets' = nSets + 1
    /\ nEvents' = nEvents + 1
    /\ UNCHANGED <<serverVars, storeVars, build, searchQuery, saveTimeoutRef, timers, nScheduled, initPending,
                   unloaded, net, manualPending, log, lastApplied, searches, faults, failed, alerts>>

\* 't' or 'f'
KeyLabelPlain ==
    /\ build = "plain" /\ CanAct
    /\ focusedIndex + 1 \in DOMAIN pageVideos
    /\ \E newLabel \in LabelStatus :
        ToggleLabel(pageVideos[focusedIndex + 1].key, newLabel)

\* onToggleLabel of the item at idx
ClickLabelPlain ==
    /\ build = "plain" /\ CanAct /\ Ready
    /\ \E idx \in Slots(Len(pageVideos)), label \in LabelStatus :
        ToggleLabel(pageVideos[idx].key, label)

\* ------------------------------------------------- the events of both builds
\* setFocusedIndex(parseInt(e.key) - 1) for the keys '1' .. PAGE_SIZE
KeyFocus ==
    /\ CanAct
    /\ \E n \in Slots(PAGE_SIZE) : focusedIndex' = n - 1
    /\ UNCHANGED <<videoKeys, labels, currentPage, isLoading, pageVideos,
                   isSaving, errorStatus>>
    /\ Effects(FALSE, FALSE)
    /\ nEvents' = nEvents + 1
    /\ UNCHANGED <<serverVars, storeVars, build, searchQuery, saveTimeoutRef, timers, nScheduled, initPending,
                   unloaded, net, manualPending, log, lastSet, nSets, lastApplied, searches, faults, failed, alerts>>

\* onFocus of the item at idx: setFocusedIndex(idx)
ClickFocus ==
    /\ CanAct /\ Ready
    /\ \E idx \in Slots(Len(pageVideos)) : focusedIndex' = idx - 1
    /\ UNCHANGED <<videoKeys, labels, currentPage, isLoading, pageVideos,
                   isSaving, errorStatus>>
    /\ Effects(FALSE, FALSE)
    /\ nEvents' = nEvents + 1
    /\ UNCHANGED <<serverVars, storeVars, build, searchQuery, saveTimeoutRef, timers, nScheduled, initPending,
                   unloaded, net, manualPending, log, lastSet, nSets, lastApplied, searches, faults, failed, alerts>>

\* videoKeys.findIndex(key => key.toLowerCase().includes(query.toLowerCase())),
\* scanning from position from (1-based): the 0-based index of the first hit,
\* or -1.
RECURSIVE FindIndexFrom(_, _, _)
FindIndexFrom(keys, query, from) ==
    IF from > Len(keys) THEN -1
    ELSE IF Includes(ToLowerCase(KeyName(keys[from])), ToLowerCase(query))
         THEN from - 1
         ELSE FindIndexFrom(keys, query, from + 1)

FindIndex(keys, query) == FindIndexFrom(keys, query, 1)

\* handleSearch, with the query typed into the box before the form is
\* submitted.  The tagged build alone has the form.
HandleSearch ==
    /\ build = "tagged" /\ CanAct /\ Ready
    /\ \E query \in Queries :
        LET videoIndex == FindIndex(videoKeys, query)
        IN  /\ searches' = Append(searches, query)
            /\ IF Trim(query) = <<>>
               THEN /\ searchQuery' = query
                    /\ UNCHANGED <<currentPage, focusedIndex>>
               ELSE IF videoIndex # -1
               THEN /\ currentPage' = videoIndex \div PAGE_SIZE
                    /\ focusedIndex' = videoIndex % PAGE_SIZE
                    /\ searchQuery' = <<>>
               ELSE /\ searchQuery' = query
                    /\ UNCHANGED <<currentPage, focusedIndex>>
    /\ UNCHANGED <<videoKeys, labels, isLoading, pageVideos, isSaving, errorStatus>>
    /\ Effects(FALSE, FALSE)
    /\ nEvents' = nEvents + 1
    /\ UNCHANGED <<serverVars, storeVars, build, saveTimeoutRef, timers, nScheduled, initPending,
                   unloaded, net, manualPending, log, lastSet, nSets, lastApplied,
                   faults, failed, alerts>>

\* The pagination control: the enabled buttons and the number input call
\* onChange = setCurrentPage.
PaginationTargets(current, total) ==
    (IF current = 0 THEN {} ELSE {Max(0, current - 1)})
    \cup (IF current >= total - 1 THEN {} ELSE {Min(total - 1, current + 1)})
    \cup {val \in 0..(total - 1) : TRUE}

PaginationChange ==
    /\ CanAct /\ Ready
    /\ \E page \in PaginationTargets(currentPage, totalPages) : currentPage' = page
    /\ UNCHANGED <<videoKeys, labels, isLoading, focusedIndex, pageVideos,
                   isSaving, errorStatus>>
    /\ Effects(FALSE, FALSE)
    /\ nEvents' = nEvents + 1
    /\ UNCHANGED <<serverVars, storeVars, build, searchQuery, saveTimeoutRef, timers, nScheduled, initPending,
                   unloaded, net, manualPending, log, lastSet, nSets, lastApplied, searches, faults, failed, alerts>>

\* saveState clearing the pending timer before it saves.
SaveStateCancelsTimer ==
    /\ CanAct /\ Ready
    /\ Len(log) < MaxWrites
    /\ isSaving' = TRUE
    /\ UNCHANGED <<videoKeys, labels, currentPage, isLoading, focusedIndex,
                   pageVideos, errorStatus>>
    /\ saveTimeoutRef' = NoTimer /\ timers' = {} /\ nScheduled' = nScheduled
    /\ Dispatch(Write("manual", "json", stateRef.currentPage, stateRef.labels, Ready))
    /\ manualPending' = manualPending \cup {Len(log) + 1}
    /\ nEvents' = nEvents + 1
    /\ UNCHANGED <<serverVars, storeVars, build, searchQuery, stateRef,
                   hkCurrentPage, initPending, unloaded, fetches, lastSet, nSets,
                   lastApplied, searches, faults, failed, alerts>>

\* saveState, the Manual Save button
SaveState ==
    /\ CanAct /\ Ready
    /\ Len(log) < MaxWrites
    /\ isSaving' = TRUE
    /\ UNCHANGED <<videoKeys, labels, currentPage, isLoading, focusedIndex,
                   pageVideos, errorStatus>>
    /\ Dispatch(Write("manual", "json", stateRef.currentPage, stateRef.labels, Ready))
    /\ manualPending' = manualPending \cup {Len(log) + 1}
    /\ nEvents' = nEvents + 1
    /\ UNCHANGED <<serverVars, storeVars, build, searchQuery, stateRef, saveTimeoutRef, timers, nScheduled,
                   hkCurrentPage, initPending, unloaded, fetches, lastSet, nSets,
                   lastApplied, searches, faults, failed, alerts>>

\* ------------------------------------------------------------ the page ends
\* handleBeforeUnload of the plain build: the beacon carries the JSON text as
\* a string, which the browser sends as text/plain; then the confirmation
\* dialog, after which the operator leaves or stays.
BeforeUnloadPlain ==
    /\ build = "plain" /\ ~unloaded
    /\ nEvents < MaxEvents /\ Len(log) < MaxWrites
    /\ UNCHANGED reactVars
    /\ Dispatch(Write("beacon", "text", stateRef.currentPage, stateRef.labels, Ready))
    /\ unloaded' \in BOOLEAN
    /\ nEvents' = nEvents + 1
    /\ UNCHANGED <<serverVars, storeVars, build, searchQuery, stateRef, saveTimeoutRef, timers, nScheduled,
                   hkCurrentPage, initPending, fetches, manualPending, lastSet, nSets,
                   lastApplied, searches, faults, failed, alerts>>

\* The tagged build registers no beforeunload listener: the page just goes,
\* and its timer with it.
Unload ==
    /\ build = "tagged" /\ ~unloaded
    /\ nEvents < MaxEvents
    /\ unloaded' = TRUE
    /\ nEvents' = nEvents + 1
    /\ UNCHANGED <<serverVars, storeVars, build, searchQuery, reactVars, stateRef, saveTimeoutRef, timers, nScheduled,
                   hkCurrentPage, initPending, wireVars, log, lastSet, nSets,
                   lastApplied, searches, faults, failed, alerts>>

\* ------------------------------------------------- the server handles a save
\* express.json() parses a body only when its type is application/json;
\* const { lastPage, labels } = req.body
ParseBody(w) == IF w.ctype = "json" THEN Doc(w.lastPage, w.labels) ELSE NoFields

\* POST /api/save up to the await: dbState = { lastPage, labels } and the
\* upload of JSON.stringify(dbState) begins.  Requests arrive in the order
\* they were dispatched; the route has no init gate, and "early" notes a
\* request handled while startServer was still loading.
SaveArrive ==
    /\ net # <<>>
    /\ dbState' = ParseBody(log[Head(net)])
    /\ uploads' = uploads \cup {Head(net)}
    /\ net' = Tail(net)
    /\ faults' = IF isInitializing THEN faults \cup {"early"} ELSE faults
    /\ UNCHANGED <<isInitializing, initError, cachedVideoKeys, storeVars, clientVars,
                   fetches, manualPending, log, lastSet, nSets, lastApplied,
                   searches, failed, alerts, nEvents>>

\* A client that drops its label map when a save fails.
SaveResponseRollsBack(i, ok) ==
    /\ manualPending' = manualPending \ {i}
    /\ isSaving' = IF i \in manualPending /\ ~unloaded THEN FALSE ELSE isSaving
    /\ alerts' = IF i \in manualPending /\ ~unloaded /\ ~ok
                 THEN Append(alerts, i) ELSE alerts
    /\ labels' = IF ok THEN labels ELSE EmptyMap
    /\ UNCHANGED <<build, searchQuery, videoKeys, currentPage, isLoading,
                   focusedIndex, pageVideos, errorStatus, stateRef, saveTimeoutRef, timers, nScheduled,
                   hkCurrentPage, initPending, unloaded>>

\* The answer to write i reaches the client.  Only saveState looks at it: a
\* response that is not ok, or a rejected fetch, is caught, logged and shown
\* in an alert, and finally { setIsSaving(false) }.  The fetch of the timer
\* and the one of updateVideoData have no then and no catch.
SaveResponse(i, ok) ==
    /\ manualPending' = manualPending \ {i}
    /\ isSaving' = IF i \in manualPending /\ ~unloaded THEN FALSE ELSE isSaving
    /\ alerts' = IF i \in manualPending /\ ~unloaded /\ ~ok
                 THEN Append(alerts, i) ELSE alerts
    /\ UNCHANGED <<build, searchQuery, videoKeys, labels, currentPage, isLoading,
                   focusedIndex, pageVideos, errorStatus, stateRef, saveTimeoutRef, timers, nScheduled,
                   hkCurrentPage, initPending, unloaded>>

\* s3.send(PutObject) succeeds: the document is overwritten.
UploadOk ==
    \E i \in uploads :
        /\ uploads' = uploads \ {i}
        /\ s3Doc' = [exists |-> TRUE, doc |-> ParseBody(log[i])]
        /\ lastApplied' = i
        /\ faults' = IF i < lastApplied THEN faults \cup {"reordered"} ELSE faults
        /\ SaveResponse(i, TRUE)
        /\ UNCHANGED <<isInitializing, initError, cachedVideoKeys, dbState, s3Keys,
                       net, fetches, log, lastSet, nSets, failed, searches, nEvents>>

\* s3.send(PutObject) throws: the catch answers 500.
UploadFail ==
    \E i \in uploads :
        /\ uploads' = uploads \ {i}
        /\ faults' = faults \cup {"failed"}
        /\ failed' = failed \cup {i}
        /\ SaveResponse(i, FALSE)
        /\ UNCHANGED <<isInitializing, initError, cachedVideoKeys, dbState, storeVars,
                       net, fetches, log, lastSet, nSets, lastApplied, searches, nEvents>>

\* The request never reaches the server (the network is down): fetch rejects.
SaveLost ==
    /\ net # <<>>
    /\ log[Head(net)].src # "beacon"
    /\ net' = Tail(net)
    /\ faults' = faults \cup {"failed"}
    /\ failed' = failed \cup {Head(net)}
    /\ SaveResponse(Head(net), FALSE)
    /\ UNCHANGED <<serverVars, storeVars, fetches, log, lastSet, nSets, lastApplied,
                   searches, nEvents>>

Next ==
    \/ ServerInitOk
    \/ ServerInitDbError
    \/ ServerInitListError
    \/ InitAppError
    \/ InitAppOk
    \/ PageFetchOk
    \/ PageFetchError
    \/ KeyNext
    \/ KeyPrev
    \/ KeyLabel
    \/ ClickLabel
    \/ UpdateTag
    \/ TimerFire
    \/ KeyNextPlain
    \/ KeyPrevPlain
    \/ KeyLabelPlain
    \/ ClickLabelPlain
    \/ KeyFocus
    \/ ClickFocus
    \/ PaginationChange
    \/ HandleSearch
    \/ SaveState
    \/ BeforeUnloadPlain
    \/ Unload
    \/ SaveArrive
    \/ UploadOk
    \/ UploadFail
    \/ SaveLost

Spec == Init /\ [][Next]_vars

\* ------------------------------------------------------------------ claims
\* Nothing is scheduled or on its way: no timer is pending and every save
\* dispatched has been handled and uploaded.
Quiescent == ~saveTimeoutRef.pending /\ net = <<>> /\ uploads = {}

SaveWrites(src) == {i \in DOMAIN log : log[i].src = src}

\* C1: in the build that saves on its own, once a label has been set and a
\* quiet period has passed in which every pending timer fired and every
\* dispatched write reached the document in dispatch order, the labels of the
\* durable document are the in-memory label map.
NoLabelLostToSaveRace ==
    (/\ build = "tagged" /\ Ready /\ ~unloaded
     /\ nSets > 0 /\ Quiescent /\ faults = {}
     /\ \A i \in DOMAIN log : log[i].whenReady)
    => (s3Doc.exists /\ s3Doc.doc.defined /\ s3Doc.doc.labels = labels)

\* C2: every write the debounce timer dispatches (for a timer scheduled once
\* loading was over) carries the page and the label map that are current
\* when the timer fires.
DebouncedWriteIsCurrent ==
    \A i \in SaveWrites("debounce") :
        log[i].whenReady =>
            log[i].lastPage = log[i].atPage /\ log[i].labels = log[i].atLabels

LastOf(S) == CHOOSE i \in S : \A j \in S : j <= i

ManualSaveIsFresh ==
    \A i \in SaveWrites("manual") :
        log[i].lastPage = log[i].atPage /\ log[i].labels = log[i].atLabels

\* C4's case: a manual save made after a label was set on a key the loaded
\* document does not have carries that label.
ManualSaveAfterSet ==
    \E i \in SaveWrites("manual") :
        \E k \in DOMAIN lastSet :
            /\ k > 2
            /\ Lookup(log[i].labels, k) = lastSet[k]
            /\ log[i].lastPage = currentPage

\* A step that calls saveState.
ManualSaveStep == Cardinality(manualPending') > Cardinality(manualPending)

\* C5: a manual save made while a debounce timer is pending dispatches its
\* write in that step and leaves the timer as it is.
ManualSaveKeepsTimer ==
    [][(ManualSaveStep /\ saveTimeoutRef.pending)
        => /\ saveTimeoutRef' = saveTimeoutRef
           /\ Len(log') = Len(log) + 1
           /\ log'[Len(log')].src = "manual"]_vars

\* C5's case: a manual save was dispatched while a timer was pending, and the
\* timer's write followed it.
TimerFiredAfterManualSave ==
    \E i, j \in DOMAIN log :
        /\ i < j
        /\ log[i].src = "manual" /\ log[i].timerPending
        /\ log[j].src = "debounce"

\* C6: once the page is gone after a session in which a label was set, the
\* last write dispatched is the one of the unload, and it carries the current
\* page and the full label map.
UnloadSavesState ==
    (unloaded /\ nSets > 0) =>
        /\ log # <<>>
        /\ log[Len(log)].src = "beacon"
        /\ log[Len(log)].lastPage = currentPage
        /\ log[Len(log)].labels = labels

\* C7: the label map holds, for every key, exactly the value of the last set
\* of that key, whatever was set on other keys since.
MapIndependence ==
    \A k \in DOMAIN lastSet : k \in DOMAIN labels /\ labels[k] = lastSet[k]

\* C7's case: two keys have been set.
TwoKeysSet == Cardinality(DOMAIN lastSet) = 2

\* C8: an item whose key has no entry in the label map is shown as TP with an
\* empty tag.
AbsenceIsDefault ==
    \A i \in DOMAIN pageVideos :
        pageVideos[i].raw = Undefined =>
            pageVideos[i].label = "TP" /\ pageVideos[i].tag = ""

\* C8's case: the page view holds an item without an entry.
ItemWithoutEntry ==
    \E i \in DOMAIN pageVideos :
        pageVideos[i].raw = Undefined /\ pageVideos[i].key \notin DOMAIN labels

\* C9: in the build with tags, an entry that is a bare status string resolves
\* to that status and an empty tag, an entry in object shape to its own status
\* and tag.
LegacyUpgrade ==
    build = "tagged" =>
        \A i \in DOMAIN pageVideos :
            LET item == pageVideos[i]
            IN  /\ item.raw.shape = "str" =>
                    item.label = item.raw.status /\ item.tag = ""
                /\ item.raw.shape = "obj" =>
                    item.label = item.raw.status /\ item.tag = item.raw.tag

\* C9's case: the page view holds a loaded legacy entry "FP" and a loaded
\* entry in object shape.
LegacyAndObjectItems ==
    /\ build = "tagged" /\ nSets = 0
    /\ \E i, j \in DOMAIN pageVideos :
        /\ pageVideos[i].raw = Str("FP") /\ pageVideos[i].label = "FP"
        /\ pageVideos[j].raw = Obj("TP", "x")

\* C10: right after a successful init, before any operator event, currentPage
\* is within [0, totalPages - 1], and 0 for an empty catalog.
LastPageClampedAtLoad ==
    (Ready /\ nEvents = 0) =>
        IF totalPages = 0 THEN currentPage = 0
        ELSE currentPage >= 0 /\ currentPage <= totalPages - 1

\* max(0, min(requested, totalPages - 1)) can only give a page p for which
\* this holds: 0 <= p <= total - 1, and p = 0 when there is no page at all.
InRange(p, total) == IF total = 0 THEN p = 0 ELSE p >= 0 /\ p <= total - 1

\* C11: an operator event that finds currentPage in range leaves it in range:
\* never negative, never above totalPages - 1, and 0 for an empty catalog.
NavigationStaysInRange ==
    [][(nEvents' = nEvents + 1 /\ Ready /\ InRange(currentPage, totalPages))
        => InRange(currentPage', totalPages)]_vars

\* Two characters that are the same letter, whatever their case.
SameLetter(c, d) == c = d \/ {c, d} = {"a", "A"} \/ {c, d} = {"b", "B"}

\* sub occurs in str when the case of the letters is ignored.
ContainsIgnoringCase(str, sub) ==
    \E at \in 0..(Len(str) - Len(sub)) :
        \A i \in 1..Len(sub) : SameLetter(str[at + i], sub[i])

\* A step that submits the search form.
SearchStep == Len(searches') = Len(searches) + 1

FailedSaveChangesNothing ==
    /\ [][failed' # failed =>
            /\ labels' = labels /\ currentPage' = currentPage
            /\ stateRef' = stateRef /\ pageVideos' = pageVideos
            /\ errorStatus' = errorStatus]_vars
    /\ [](\A j \in SaveWrites("manual") :
            (\E i \in failed : i < j) =>
                log[j].lastPage = log[j].atPage /\ log[j].labels = log[j].atLabels)

\* C13's case: the save of a label set failed, the label is still in memory,
\* and a manual save made afterwards carried the same state and reached the
\* document.
ManualSaveAfterFailure ==
    \E i \in failed, j \in SaveWrites("manual") :
        /\ i < j /\ log[i].src = "label"
        /\ log[j].labels = log[i].labels /\ log[j].lastPage = log[i].lastPage
        /\ labels = log[i].labels
        /\ lastApplied = j /\ s3Doc.doc = Doc(log[j].lastPage, log[j].labels)

\* C14: while the page is there, every write that failed, whichever path
\* dispatched it, has been reported to the operator exactly once.
EveryFailureReportedOnce ==
    (build = "tagged" /\ ~unloaded) =>
        \A i \in failed : Cardinality({k \in DOMAIN alerts : alerts[k] = i}) = 1

\* What Init serves of a document.
Served(doc) == [labels |-> LabelsOrEmpty(doc), lastPage |-> LastPageOr0(doc)]

\* C15: when saves have failed and none has succeeded, and no request is on
\* its way, Init serves what it served before them: the state loaded at
\* start (the stored document, or the defaults), not a rejected snapshot.
RejectedSaveIsNotServed ==
    (/\ ~isInitializing /\ ~Truthy(initError)
     /\ net = <<>> /\ uploads = {}
     /\ failed # {} /\ lastApplied = 0)
    => [labels |-> InitResponse.labels, lastPage |-> InitResponse.lastPage]
        \in {Served(s3Doc.doc), Served(Doc(0, EmptyMap))}

\* C16: when the save dispatched last is also the one whose upload succeeded
\* last, nothing else being on its way (so no other save came in between),
\* the document is exactly { lastPage, labels } of that save and Init returns
\* that lastPage and that label map.
SaveInitRoundTrip ==
    (/\ ~isInitializing /\ ~Truthy(initError)
     /\ net = <<>> /\ uploads = {}
     /\ lastApplied > 0 /\ lastApplied = Len(log))
    => LET w == log[lastApplied]
       IN  /\ s3Doc.exists
           /\ s3Doc.doc = Doc(w.lastPage, w.labels)
           /\ InitResponse.lastPage = w.lastPage
           /\ InitResponse.labels = w.labels

\* C17: once initialization has failed, errorStatus is set and stays set (the
\* program has no step that clears it: only a reload does), loading is over,
\* the catalog, the label map and the page view are empty, and no page fetch
\* is in flight.
InitFailureBlocks ==
    /\ [](errorStatus # Null =>
            /\ ~isLoading
            /\ videoKeys = <<>> /\ labels = EmptyMap /\ pageVideos = <<>>
            /\ fetches = {})
    /\ [][errorStatus # Null => errorStatus' = errorStatus]_vars

\* C17's case: initialization failed and the operator then pressed keys that
\* changed the page.
KeysPressedInErrorState ==
    errorStatus # Null /\ nEvents = 2 /\ currentPage # 0

\* C18: a step that sets a label issues no page fetch.
LabelSetIssuesNoFetch ==
    [][nSets' = nSets + 1 => fetches' = fetches]_vars

\* C19: with a catalog loaded and currentPage in range, a next-page key moves
\* to the page after the current one (or stays on the last), a previous-page
\* key to the page before it (or stays on the first), whether or not a page
\* fetch has completed since the page last changed.
KeyNavigationFromCurrentPage ==
    [][(Ready /\ Len(videoKeys) > 0 /\ InRange(currentPage, totalPages)) =>
        /\ KeyNext => currentPage' = Min(currentPage + 1, totalPages - 1)
        /\ KeyPrev => currentPage' = Max(0, currentPage - 1)]_vars

\* C20: in the build with the debounce timer, an operator event that changes
\* the page leaves a timer pending whose write will carry the new page.
NavigationRestartsTimer ==
    [][(build = "tagged" /\ Ready /\ nEvents' = nEvents + 1
        /\ currentPage' # currentPage)
        => saveTimeoutRef'.pending /\ saveTimeoutRef'.page = currentPage']_vars

\* C21: at most one timer of debouncedSave is pending at any moment, and the
\* timer that fires is always the one scheduled last: a timer that a later
\* call of debouncedSave replaced never fires.
SingleDebounceTimer ==
    /\ [](Cardinality(timers) <= 1)
    /\ [][(Len(log') = Len(log) + 1 /\ log'[Len(log')].src = "debounce")
            => \A timer \in timers \ timers' : timer.id = nScheduled]_vars

\* C21's case: debouncedSave was called twice in a row and one timer fired,
\* none being left.
TwoSchedulesOneFire ==
    /\ nScheduled = 2 /\ nEvents = 2
    /\ Cardinality(SaveWrites("debounce")) = 1
    /\ timers = {} /\ Len(log) = 1

\* C22: when the stored document exists and loading it failed at server
\* start, initialization has failed: Init answers with an error.
DbLoadFailureFailsInit ==
    ("dbload" \in faults /\ ~isInitializing) => Truthy(initError)

\* C23: a step in which a page fetch fails leaves the page view, the label
\* map, currentPage and errorStatus as they were.
FailedFetchChangesNothing ==
    [][PageFetchError =>
        /\ pageVideos' = pageVideos /\ labels' = labels
        /\ currentPage' = currentPage /\ errorStatus' = errorStatus
        /\ isLoading' = isLoading]_vars

\* C23's case: a page fetch failed while a page view with a label set by the
\* operator was shown, and both are still there.
FetchFailedOnShownPage ==
    /\ "fetch" \in faults /\ fetches = {}
    /\ pageVideos # <<>> /\ nSets > 0 /\ Ready
    /\ \E i \in DOMAIN pageVideos :
        pageVideos[i].key \in DOMAIN lastSet
        /\ labels[pageVideos[i].key] = lastSet[pageVideos[i].key]

\* C24: once the client holds the catalog, the page fetch for the page the
\* client computes for catalog index i (i divided by its page size) returns
\* the item of index i at position i modulo the page size.
PageWindowAgrees ==
    (Ready /\ videoKeys = cachedVideoKeys) =>
        \A i \in 0..(Len(videoKeys) - 1) :
            LET page == PageSlice(i \div PAGE_SIZE)
                slot == (i % PAGE_SIZE) + 1
            IN  slot \in DOMAIN page /\ page[slot] = videoKeys[i + 1]

\* The page parameters a request is tried with.
PageQueries == {Query(p) : p \in -2..2} \cup {NotANumber}

\* C25: on an initialized server the page fetch for a page p >= 0 returns the
\* catalog identifiers of indexes p*size up to min((p+1)*size, n), in catalog
\* order, and for a negative or non-numeric page an empty list or page 0.
PageFetchWindow ==
    (~isInitializing /\ ~Truthy(initError)) =>
        \A raw \in PageQueries :
            LET n == Len(cachedVideoKeys)
                p == raw.value
                from == p * SERVER_PAGE_SIZE
                to == Min((p + 1) * SERVER_PAGE_SIZE, n)
            IN  IF raw.numeric /\ p >= 0
                THEN PageResponse(raw) =
                        [i \in 1..Max(0, to - from) |-> cachedVideoKeys[from + i]]
                ELSE PageResponse(raw) \in {<<>>, PageResponse(Query(0))}

\* C26: focusedIndex is a slot of the client's page: 0 <= focusedIndex <
\* PAGE_SIZE in every reachable state.
FocusWithinPage == focusedIndex >= 0 /\ focusedIndex < PAGE_SIZE

\* C27: every write the client has dispatched stems from an event that
\* happened after initialization had completed successfully (loading over, no
\* init error).
NoWriteBeforeInit == \A i \in DOMAIN log : log[i].whenReady

\* C28: with a catalog loaded, no page fetch in flight and none failed, the
\* page view holds the items the server has for currentPage, each shown with
\* the label and the tag the label map gives it.
PageViewIsCurrent ==
    (/\ Ready /\ Len(videoKeys) > 0 /\ InRange(currentPage, totalPages)
     /\ fetches = {} /\ "fetch" \notin faults)
    => /\ [i \in DOMAIN pageVideos |-> pageVideos[i].key] = PageSlice(currentPage)
       /\ \A i \in DOMAIN pageVideos :
            /\ pageVideos[i].label = Annotate(pageVideos[i].key, labels).label
            /\ pageVideos[i].tag = Annotate(pageVideos[i].key, labels).tag

\* C29: on an initialized server, when every save request that arrived (all
\* after initialization, all with a JSON body) has had its upload complete
\* successfully, what Init returns for labels and lastPage is the content of
\* the durable document.
InitServesDurableDocument ==
    (/\ ~isInitializing /\ ~Truthy(initError)
     /\ net = <<>> /\ uploads = {}
     /\ failed = {} /\ "early" \notin faults /\ lastApplied > 0
     /\ \A i \in DOMAIN log : log[i].ctype = "json")
    => /\ s3Doc.exists
       /\ [labels |-> InitResponse.labels, lastPage |-> InitResponse.lastPage]
            = Served(s3Doc.doc)

\* C30: while the page is open, isSaving is TRUE exactly when a manual save
\* request is in flight.
SavingIndicatorIsAccurate == ~unloaded => (isSaving <=> manualPending # {})

\* C31: GET /api/init and GET /api/page answer 503 while initialization is
\* running and 500 once it has failed, so that neither answers 200 with
\* catalog or label data unless initialization has completed without an error.
InitGate ==
    LET answers == {GetInit} \cup {GetPage(raw) : raw \in PageQueries}
    IN  /\ isInitializing => \A a \in answers : a.status = 503 /\ a.body = Null
        /\ (~isInitializing /\ "init" \in faults)
             => \A a \in answers : a.status = 500 /\ a.body = Null

====
